---- MODULE Spec2Model ----
(***************************************************************************)
(* Carrier Sales API (src/app.py): carrier verification, load search, call *)
(* outcome recording, analytics and call listing, as a state machine over  *)
(* the two JSON files the handlers read and write.                         *)
(*                                                                         *)
(* Strings whose characters matter (load fields, search criteria) are      *)
(* sequences of one-character strings, so that str.lower() and the `in`    *)
(* substring test are computed and not assumed.  Opaque strings (API keys, *)
(* outcomes, sentiments, carrier fields) are TLA+ strings.                 *)
(***************************************************************************)
EXTENDS Integers, Sequences, FiniteSets, TLC

VARIABLES
    callsFile,  \* calls_database.json: [status, data]
    loadsFile,  \* loads.json: [status, data]
    clock,      \* the server clock, in ticks
    req,        \* the request handled last
    resp,       \* the response returned last
    pc,         \* concurrent handlers: position of each worker in save_call_results
    local       \* concurrent handlers: each worker's local variables (data, calls)

vars == <<callsFile, loadsFile, clock, req, resp, pc, local>>

(***************************************************************************)
(* Bounds of the model.                                                    *)
(***************************************************************************)
MaxCalls == 3        \* records the call store may hold
MaxLoads == 2        \* loads in a catalog drawn by InitLoads
MaxClock == 3        \* last tick of the clock
TicksPerSecond == 2  \* clock ticks in one second
NumWorkers == 2      \* concurrent POST /api/call-results handlers

(***************************************************************************)
(* Optional values: a missing header, query parameter or JSON field.       *)
(***************************************************************************)
None == <<>>
Some(v) == <<v>>

Min(a, b) == IF a < b THEN a ELSE b
Max(a, b) == IF a < b THEN b ELSE a

(***************************************************************************)
(* Character strings.                                                      *)
(***************************************************************************)
UpperChars == <<"A","B","C","D","E","F","G","H","I","J","K","L","M",
                "N","O","P","Q","R","S","T","U","V","W","X","Y","Z">>
LowerChars == <<"a","b","c","d","e","f","g","h","i","j","k","l","m",
                "n","o","p","q","r","s","t","u","v","w","x","y","z">>

\* str.lower() on one character
LowerChar(c) ==
    IF \E i \in 1..Len(UpperChars) : UpperChars[i] = c
    THEN LowerChars[CHOOSE i \in 1..Len(UpperChars) : UpperChars[i] = c]
    ELSE c

\* str.lower()
Lower(s) == [i \in 1..Len(s) |-> LowerChar(s[i])]

\* Python's `sub in s` on strings
Contains(sub, s) ==
    \E i \in 0..(Len(s) - Len(sub)) : SubSeq(s, i + 1, i + Len(sub)) = sub

(***************************************************************************)
(* Configuration and the record store (app.py lines 17-53).                *)
(***************************************************************************)
API_KEY == "your-secret-api-key-here"

\* The X-API-Key header of a request: absent, wrong, or the configured key.
ApiKeyHeaders == {None, Some("wrong-key"), Some(API_KEY)}

\* verify_api_key: request.headers.get('X-API-Key') != API_KEY -> False
verify_api_key(header) == header = Some(API_KEY)

\* A file on disk: "missing", "ok" (holds the JSON array `data`) or
\* "corrupt" (holds text json.load cannot decode).
MissingFile == [status |-> "missing", data |-> <<>>]
CorruptFile == [status |-> "corrupt", data |-> <<>>]
OkFile(data) == [status |-> "ok", data |-> data]

\* load_json_file: FileNotFoundError and JSONDecodeError both give []
load_json_file(file) == IF file.status = "ok" THEN file.data ELSE <<>>

\* save_json_file: open(filename, 'w') truncates the file, then json.dump
\* writes the array.  dumped = FALSE is json.dump (or the flush on close)
\* raising after the truncation: what is left is not a decodable array.
save_json_file(data, dumped) == IF dumped THEN OkFile(data) ELSE CorruptFile

\* dict.get(name, default)
Get(d, name, default) == IF name \in DOMAIN d THEN d[name] ELSE default

Unauthorized(endpoint) ==
    [status |-> 401, endpoint |-> endpoint, error |-> "Unauthorized"]

NoRequest == [endpoint |-> "none"]
NoResponse == [status |-> 0, endpoint |-> "none"]

(***************************************************************************)
(* GET /api/loads (search_loads, app.py lines 168-231).                    *)
(*                                                                         *)
(* args holds the query string; a parameter that is absent and one that is *)
(* empty are both the empty string, as request.args.get(name, '') makes    *)
(* them.  The handler reads origin_city, origin_state, destination_city,   *)
(* destination_state, equipment_type, commodity and pickup_date (min_temp  *)
(* is read and never used); any other parameter, `origin` and              *)
(* `destination` included, is never looked at.                             *)
(***************************************************************************)
\* The loop body with .lower() left off the load's fields
LoadPassesKeepingCase(load, args) ==
    LET origin_city == Lower(args.origin_city)
        origin_state == Lower(args.origin_state)
        destination_city == Lower(args.destination_city)
        destination_state == Lower(args.destination_state)
        equipment_type == Lower(args.equipment_type)
        commodity == Lower(args.commodity)
        pickup_date == args.pickup_date
    IN  /\ ~(origin_city # <<>> /\ ~Contains(origin_city, Get(load, "origin", <<>>)))
        /\ ~(origin_state # <<>> /\ ~Contains(origin_state, Get(load, "origin", <<>>)))
        /\ ~(destination_city # <<>>
               /\ ~Contains(destination_city, Get(load, "destination", <<>>)))
        /\ ~(destination_state # <<>>
               /\ ~Contains(destination_state, Get(load, "destination", <<>>)))
        /\ ~(equipment_type # <<>>
               /\ ~Contains(equipment_type, Get(load, "equipment_type", <<>>)))
        /\ ~(commodity # <<>> /\ ~Contains(commodity, Get(load, "commodity_type", <<>>)))
        /\ ~(pickup_date # <<>>
               /\ ~Contains(pickup_date, Get(load, "pickup_datetime", <<>>)))

\* One iteration of the loop body: TRUE when no `continue` is taken.
LoadPasses(load, args) ==
    LET origin_city == Lower(args.origin_city)
        origin_state == Lower(args.origin_state)
        destination_city == Lower(args.destination_city)
        destination_state == Lower(args.destination_state)
        equipment_type == Lower(args.equipment_type)
        commodity == Lower(args.commodity)
        pickup_date == args.pickup_date
    IN  /\ ~(origin_city # <<>> /\ ~Contains(origin_city, Lower(Get(load, "origin", <<>>))))
        /\ ~(origin_state # <<>> /\ ~Contains(origin_state, Lower(Get(load, "origin", <<>>))))
        /\ ~(destination_city # <<>>
               /\ ~Contains(destination_city, Lower(Get(load, "destination", <<>>))))
        /\ ~(destination_state # <<>>
               /\ ~Contains(destination_state, Lower(Get(load, "destination", <<>>))))
        /\ ~(equipment_type # <<>>
               /\ ~Contains(equipment_type, Lower(Get(load, "equipment_type", <<>>))))
        /\ ~(commodity # <<>>
               /\ ~Contains(commodity, Lower(Get(load, "commodity_type", <<>>))))
        /\ ~(pickup_date # <<>>
               /\ ~Contains(pickup_date, Get(load, "pickup_datetime", <<>>)))

\* for load in all_loads: ... filtered_loads.append(load)
RECURSIVE FilterLoop(_, _, _, _)
FilterLoop(all_loads, args, i, filtered_loads) ==
    IF i > Len(all_loads) THEN filtered_loads
    ELSE FilterLoop(all_loads, args, i + 1,
                    IF LoadPasses(all_loads[i], args)
                    THEN Append(filtered_loads, all_loads[i])
                    ELSE filtered_loads)

search_loads_response(file, args) ==
    LET filtered_loads == FilterLoop(load_json_file(file), args, 1, <<>>)
    IN  [status |-> 200, endpoint |-> "loads", success |-> TRUE,
         count |-> Len(filtered_loads), loads |-> filtered_loads]

search_loads(header, args) ==
    /\ req' = [endpoint |-> "loads", args |-> args, key |-> header]
    /\ resp' = IF ~verify_api_key(header) THEN Unauthorized("loads")
               ELSE search_loads_response(loadsFile, args)
    /\ UNCHANGED <<callsFile, loadsFile, clock, pc, local>>

(***************************************************************************)
(* GET /api/loads/<load_id> (get_load_by_id, app.py lines 233-253).        *)
(***************************************************************************)
RECURSIVE FindLoad(_, _, _)
FindLoad(all_loads, load_id, i) ==
    IF i > Len(all_loads) THEN None
    ELSE IF Get(all_loads[i], "load_id", "") = load_id THEN Some(all_loads[i])
    ELSE FindLoad(all_loads, load_id, i + 1)

get_load_by_id(header, load_id) ==
    /\ req' = [endpoint |-> "load", key |-> header, load_id |-> load_id]
    /\ resp' = IF ~verify_api_key(header) THEN Unauthorized("load")
               ELSE LET found == FindLoad(load_json_file(loadsFile), load_id, 1)
                    IN  IF found # None
                        THEN [status |-> 200, endpoint |-> "load", load |-> found[1],
                              success |-> TRUE]
                        ELSE [status |-> 404, endpoint |-> "load", error |-> "Load not found",
                              success |-> FALSE]
    /\ UNCHANGED <<callsFile, loadsFile, clock, pc, local>>

(***************************************************************************)
(* GET /health (health_check, app.py lines 57-64).                         *)
(***************************************************************************)
health_check ==
    /\ req' = [endpoint |-> "health"]
    /\ resp' = [status |-> 200, endpoint |-> "health", health |-> "healthy"]
    /\ UNCHANGED <<callsFile, loadsFile, clock, pc, local>>

(***************************************************************************)
(* JSON values of the registry's answer, tagged by type.                   *)
(***************************************************************************)
JNull == [t |-> "null"]
JStr(s) == [s |-> s, t |-> "str"]
JObj(f) == [t |-> "obj", f |-> f]
JArr(a) == [a |-> a, t |-> "arr"]

\* isinstance(v, dict), isinstance(v, list)
IsDict(v) == v.t = "obj"
IsList(v) == v.t = "arr"

\* Python truth value: None, "", {} and [] are false
Truthy(v) ==
    CASE v.t = "null" -> FALSE
      [] v.t = "str" -> v.s # ""
      [] v.t = "obj" -> DOMAIN v.f # {}
      [] v.t = "arr" -> v.a # <<>>

\* d.get(key): None when the key is absent
JGet(d, key) == IF key \in DOMAIN d.f THEN d.f[key] ELSE JNull

\* Python's `a or b`
PyOr(a, b) == IF Truthy(a) THEN a ELSE b

(***************************************************************************)
(* GET /api/verify-carrier (verify_carrier, app.py lines 66-166).          *)
(*                                                                         *)
(* upstream is what requests.get and the parse give: raised = TRUE when    *)
(* the call raises, else body is None for a body neither r.json() nor      *)
(* json.loads can parse, or Some(value).  The two returns after line 153   *)
(* follow a return in every path and are never executed.                   *)
(***************************************************************************)
\* lines 87-98: the parsed body, {} when unparsable or not a dict
ParsedData(upstream) ==
    IF upstream.body = None THEN JObj(<<>>)
    ELSE IF ~IsDict(upstream.body[1]) THEN JObj(<<>>)
    ELSE upstream.body[1]

\* lines 101-109: the carrier candidate (None is JNull)
NormalizeCarrier(data) ==
    LET content == IF Truthy(data) THEN JGet(data, "content") ELSE JNull
    IN  IF IsDict(content) THEN PyOr(JGet(content, "carrier"), content)
        ELSE IF IsList(content) /\ Len(content.a) > 0
        THEN LET first == content.a[1]
             IN  IF IsDict(first) THEN PyOr(JGet(first, "carrier"), first) ELSE JNull
        ELSE JNull

\* lines 115-121
CarrierData(mc_number, carrier) ==
    [mc_number |-> mc_number,
     legal_name |-> PyOr(PyOr(JGet(carrier, "legalName"), JGet(carrier, "name")),
                         JStr("Unknown")),
     dot_number |-> PyOr(JGet(carrier, "dotNumber"), JStr("N/A")),
     city |-> PyOr(JGet(carrier, "phyCity"), JStr("N/A")),
     state |-> PyOr(JGet(carrier, "phyState"), JStr("N/A"))]

\* lines 129-135 and 145-151
MockCarrierData(mc_number) ==
    [mc_number |-> mc_number,
     legal_name |-> JStr("MOCK CARRIER LLC"),
     dot_number |-> JStr("123456"),
     city |-> JStr("Chicago"),
     state |-> JStr("IL")]

Verified(carrier_data, message) ==
    [status |-> 200, endpoint |-> "verify", success |-> TRUE, carrier_data |-> Some(carrier_data),
     message |-> message, verified |-> TRUE]

verify_carrier_response(mc_number, upstream) ==
    IF upstream.raised
    THEN Verified(MockCarrierData(mc_number), "FMCSA API error - using mock data")
    ELSE LET carrier == NormalizeCarrier(ParsedData(upstream))
         IN  IF Truthy(carrier) /\ IsDict(carrier)
             THEN Verified(CarrierData(mc_number, carrier), "Carrier verified via FMCSA")
             ELSE Verified(MockCarrierData(mc_number),
                           "Carrier not found in FMCSA - using mock data for demo")

\* mc_number is request.args.get("mc_number"): None, Some("") or Some(text)
verify_carrier(header, mc_number, upstream) ==
    /\ req' = [endpoint |-> "verify", key |-> header, upstream |-> upstream,
               mc_number |-> mc_number]
    /\ resp' = IF ~verify_api_key(header) THEN Unauthorized("verify")
               ELSE IF mc_number = None \/ mc_number = Some("")
               THEN [status |-> 400, endpoint |-> "verify", error |-> "mc_number required",
                     success |-> FALSE]
               ELSE verify_carrier_response(mc_number[1], upstream)
    /\ UNCHANGED <<callsFile, loadsFile, clock, pc, local>>

(***************************************************************************)
(* The clock.  datetime.now() is the current tick; isoformat() keeps the   *)
(* order of ticks under string comparison, so a timestamp is its tick.     *)
(* strftime('%Y%m%d_%H%M%S') keeps the second of the tick only.            *)
(***************************************************************************)
Second(tick) == tick \div TicksPerSecond

(***************************************************************************)
(* POST /api/call-results (save_call_results, app.py lines 255-302).       *)
(*                                                                         *)
(* body is what request.get_json() gives: kind "malformed" when it raises, *)
(* "notdict" for JSON that is not an object (item assignment raises), or   *)
(* "dict" with the payload d.  The handler reads the clock twice: adv0     *)
(* ticks pass before line 278, adv1 ticks between lines 278 and 279.       *)
(***************************************************************************)
\* lines 278-279: data['timestamp'] = ...; data['id'] = ...
Stamp(d, timestamp, id) ==
    [k \in DOMAIN d \cup {"timestamp", "id"} |->
        IF k = "timestamp" THEN timestamp ELSE IF k = "id" THEN id ELSE d[k]]

\* calls.insert(0, data) in place of calls.append(data)
AddCallFirst(calls, data) == <<data>> \o calls

\* line 285: calls.append(data)
AddCall(calls, data) == Append(calls, data)

Created(data) ==
    [status |-> 201, endpoint |-> "call-results", success |-> TRUE,
     timestamp |-> data.timestamp, call_id |-> data.id]

ServerError(endpoint) == [status |-> 500, endpoint |-> endpoint, success |-> FALSE]

save_call_results(header, body, adv0, adv1, dumped) ==
    /\ clock + adv0 + adv1 <= MaxClock
    /\ req' = [endpoint |-> "call-results", key |-> header, body |-> body]
    /\ IF ~verify_api_key(header)
       THEN /\ adv1 = 0 /\ dumped
            /\ resp' = Unauthorized("call-results")
            /\ clock' = clock + adv0
            /\ UNCHANGED callsFile
       ELSE IF body.kind # "dict"
       THEN /\ adv1 = 0 /\ dumped
            /\ resp' = ServerError("call-results")
            /\ clock' = clock + adv0
            /\ UNCHANGED callsFile
       ELSE LET data == Stamp(body.d, clock + adv0, Second(clock + adv0 + adv1))
                calls == AddCall(load_json_file(callsFile), data)
            IN  /\ Len(calls) <= MaxCalls
                /\ callsFile' = save_json_file(calls, dumped)
                /\ resp' = IF dumped THEN Created(data) ELSE ServerError("call-results")
                /\ clock' = clock + adv0 + adv1
    /\ UNCHANGED <<loadsFile, pc, local>>

(***************************************************************************)
(* GET /api/analytics (get_analytics, app.py lines 304-368).               *)
(*                                                                         *)
(* A rate x / n * 100 is the exact fraction [num |-> x * 100, den |-> n].  *)
(* round(x, 2) is the number of hundredths, an integer.  A JSON null and   *)
(* an absent field both make c.get(field) None, so negotiation_rounds and  *)
(* agreed_rate are either absent or a number.                              *)
(***************************************************************************)
\* len([c for c in calls if c.get(field) == value])
CountWhere(calls, field, value) ==
    Len(SelectSeq(calls, LAMBDA c : field \in DOMAIN c /\ c[field] = value))

\* c.get('sentiment') without the default
CountSentimentNoDefault(calls, value) ==
    Len(SelectSeq(calls, LAMBDA c : "sentiment" \in DOMAIN c /\ c.sentiment = value))

\* [c.get('sentiment', 'neutral') for c in calls].count(value)
CountSentiment(calls, value) ==
    Len(SelectSeq(calls, LAMBDA c : Get(c, "sentiment", "neutral") = value))

\* [c.get(field, 0) for c in calls if field in c]: zeros are kept
TruthiesWithZeros(calls, field) ==
    LET kept == SelectSeq(calls, LAMBDA c : field \in DOMAIN c)
    IN  [i \in 1..Len(kept) |-> kept[i][field]]

\* [c.get(field, 0) for c in calls if c.get(field)]
Truthies(calls, field) ==
    LET kept == SelectSeq(calls, LAMBDA c : field \in DOMAIN c /\ c[field] # 0)
    IN  [i \in 1..Len(kept) |-> kept[i][field]]

\* sum(xs)
RECURSIVE Sum(_)
Sum(xs) == IF xs = <<>> THEN 0 ELSE xs[1] + Sum(Tail(xs))

\* round(num / den, 2) in hundredths, halves to the even hundredth
Round2(num, den) ==
    LET q == (num * 100) \div den
        r == (num * 100) % den
    IN  IF 2 * r < den THEN q
        ELSE IF 2 * r > den THEN q + 1
        ELSE IF q % 2 = 0 THEN q ELSE q + 1

\* round(sum(xs) / len(xs) if xs else 0, 2)
Average(xs) == IF xs # <<>> THEN Round2(Sum(xs), Len(xs)) ELSE 0

Analytics(calls) ==
    LET total_calls == Len(calls)
        successful_calls == CountWhere(calls, "outcome", "agreed")
        transferred_calls == CountWhere(calls, "outcome", "transferred")
        positive == CountSentiment(calls, "positive")
    IN  [sentiment |-> [positive |-> positive,
                        neutral |-> CountSentiment(calls, "neutral"),
                        negative |-> CountSentiment(calls, "negative"),
                        positive_rate |-> [num |-> positive * 100, den |-> total_calls]],
         total_calls |-> total_calls,
         successful_calls |-> successful_calls,
         transferred_calls |-> transferred_calls,
         conversion_rate |-> [num |-> successful_calls * 100, den |-> total_calls],
         negotiation |-> [avg_rounds |-> Average(Truthies(calls, "negotiation_rounds")),
                          avg_agreed_rate |-> Average(Truthies(calls, "agreed_rate"))]]

get_analytics(header) ==
    /\ req' = [endpoint |-> "analytics", key |-> header]
    /\ resp' = IF ~verify_api_key(header) THEN Unauthorized("analytics")
               ELSE LET calls == load_json_file(callsFile)
                    IN  IF calls = <<>>
                        THEN [status |-> 200, endpoint |-> "analytics", success |-> TRUE,
                              total_calls |-> 0]
                        ELSE [status |-> 200, endpoint |-> "analytics", success |-> TRUE,
                              analytics |-> Analytics(calls)]
    /\ UNCHANGED <<callsFile, loadsFile, clock, pc, local>>

(***************************************************************************)
(* GET /api/calls (get_all_calls, app.py lines 370-399).                   *)
(*                                                                         *)
(* limit is request.args.get('limit', type=int): None or Some(integer).    *)
(***************************************************************************)
\* x.get('timestamp', ''): the empty string sorts before every timestamp
TimestampKey(x) == Get(x, "timestamp", -1)

\* list.sort(key=..., reverse=True) is stable: equal keys keep their order
RECURSIVE InsertDescending(_, _)
InsertDescending(sorted, x) ==
    IF sorted = <<>> THEN <<x>>
    ELSE IF TimestampKey(sorted[1]) >= TimestampKey(x)
         THEN <<sorted[1]>> \o InsertDescending(Tail(sorted), x)
         ELSE <<x>> \o sorted

\* list.sort(key=...) with reverse=True left off
RECURSIVE InsertAscending(_, _)
InsertAscending(sorted, x) ==
    IF sorted = <<>> THEN <<x>>
    ELSE IF TimestampKey(sorted[1]) <= TimestampKey(x)
         THEN <<sorted[1]>> \o InsertAscending(Tail(sorted), x)
         ELSE <<x>> \o sorted

RECURSIVE SortOldestFirst(_)
SortOldestFirst(calls) ==
    IF calls = <<>> THEN <<>>
    ELSE InsertAscending(SortOldestFirst(SubSeq(calls, 1, Len(calls) - 1)),
                         calls[Len(calls)])

RECURSIVE SortNewestFirst(_)
SortNewestFirst(calls) ==
    IF calls = <<>> THEN <<>>
    ELSE InsertDescending(SortNewestFirst(SubSeq(calls, 1, Len(calls) - 1)),
                          calls[Len(calls)])

\* calls[:limit]
SliceTo(calls, limit) ==
    IF limit >= 0 THEN SubSeq(calls, 1, Min(limit, Len(calls)))
    ELSE SubSeq(calls, 1, Max(Len(calls) + limit, 0))

\* if limit: calls = calls[:limit]
ApplyLimit(calls, limit) ==
    IF limit # None /\ limit[1] # 0 THEN SliceTo(calls, limit[1]) ELSE calls

get_all_calls(header, limit) ==
    /\ req' = [endpoint |-> "calls", key |-> header, limit |-> limit]
    /\ resp' = IF ~verify_api_key(header) THEN Unauthorized("calls")
               ELSE LET calls == ApplyLimit(SortNewestFirst(load_json_file(callsFile)),
                                            limit)
                    IN  [status |-> 200, endpoint |-> "calls", success |-> TRUE,
                         count |-> Len(calls), calls |-> calls]
    /\ UNCHANGED <<callsFile, loadsFile, clock, pc, local>>

(***************************************************************************)
(* Concurrent POST /api/call-results handlers (app.py lines 271-295, 28-46)*)
(* Each worker handles one request; its steps are the places where the     *)
(* handler touches the shared file: the load (line 282), the open that     *)
(* truncates (line 45) and the dump that is flushed on close (line 46).    *)
(* No lock is taken anywhere.                                              *)
(***************************************************************************)
Workers == 1..NumWorkers

NoLocal == [status |-> 0, data |-> <<>>, calls |-> <<>>, loaded |-> <<>>, clean |-> TRUE]

\* lines 271-279: authenticate, decode the body, stamp it
Begin(w, header, body, adv0, adv1) ==
    /\ pc[w] = "idle"
    /\ clock + adv0 + adv1 <= MaxClock
    /\ clock' = clock + adv0 + adv1
    /\ IF ~verify_api_key(header)
       THEN /\ pc' = [pc EXCEPT ![w] = "done"]
            /\ local' = [local EXCEPT ![w].status = 401]
       ELSE IF body.kind # "dict"
       THEN /\ pc' = [pc EXCEPT ![w] = "done"]
            /\ local' = [local EXCEPT ![w].status = 500]
       ELSE /\ pc' = [pc EXCEPT ![w] = "stamped"]
            /\ local' = [local EXCEPT ![w].data =
                            Stamp(body.d, clock + adv0, Second(clock + adv0 + adv1))]
    /\ UNCHANGED <<callsFile, loadsFile, req, resp>>

\* line 282: calls = load_json_file(CALLS_DB_FILE)
LoadCalls(w) ==
    /\ pc[w] = "stamped"
    /\ pc' = [pc EXCEPT ![w] = "loaded"]
    /\ local' = [local EXCEPT ![w].loaded = load_json_file(callsFile),
                              ![w].calls = load_json_file(callsFile)]
    /\ UNCHANGED <<callsFile, loadsFile, clock, req, resp>>

\* lines 285 and 45: calls.append(data); open(filename, 'w') empties the file
OpenForWrite(w) ==
    /\ pc[w] = "loaded"
    /\ pc' = [pc EXCEPT ![w] = "writing"]
    /\ local' = [local EXCEPT ![w].calls = AddCall(@, local[w].data),
                              ![w].clean = TRUE]
    /\ callsFile' = CorruptFile
    /\ UNCHANGED <<loadsFile, clock, req, resp>>

\* lines 46 and 290-295: json.dump reaches the file when it is closed, then
\* the 201 is returned.  When another worker wrote the file since this one
\* opened it, the bytes of both mix: the file holds this worker's array
\* (intact = TRUE) or text that no longer decodes.
Dump(w, intact) ==
    /\ pc[w] = "writing"
    /\ intact \/ ~local[w].clean
    /\ pc' = [pc EXCEPT ![w] = "done"]
    /\ local' = [v \in Workers |->
                    IF v = w THEN [local[v] EXCEPT !.status = 201]
                    ELSE IF pc[v] = "writing" THEN [local[v] EXCEPT !.clean = FALSE]
                    ELSE local[v]]
    /\ callsFile' = save_json_file(local[w].calls, intact)
    /\ UNCHANGED <<loadsFile, clock, req, resp>>

(***************************************************************************)
(* Inputs.                                                                 *)
(***************************************************************************)
Malformed == [kind |-> "malformed"]
NotDict == [kind |-> "notdict"]
Dict(d) == [d |-> d, kind |-> "dict"]

NoWorkers == [w \in Workers |-> "idle"]
NoLocals == [w \in Workers |-> NoLocal]

\* Catalog strings
DalTX == <<"D","a","l",","," ","T","X">>
HouTX == <<"H","o","u",","," ","T","X">>
AusTX == <<"A","u","s",","," ","T","X">>
LACA == <<"L","A",","," ","C","A">>
RenoNV == <<"R","e","n","o",","," ","N","V">>
Van == <<"V","a","n">>
Reef == <<"R","e","e","f">>
Flat == <<"F","l","a","t">>
Stl == <<"S","t","l">>
Food == <<"F","o","o","d">>
Jan15At08 == <<"0","1","-","1","5","T","0","8">>
Jan16At09 == <<"0","1","-","1","6","T","0","9">>
Jan15At10 == <<"0","1","-","1","5","T","1","0">>

LoadPool ==
    { [equipment_type |-> Van, load_id |-> "L1", origin |-> DalTX, destination |-> HouTX,
       commodity_type |-> Stl, pickup_datetime |-> Jan15At08],
      [equipment_type |-> Reef, load_id |-> "L2", origin |-> AusTX, destination |-> LACA,
       commodity_type |-> Food, pickup_datetime |-> Jan16At09],
      [equipment_type |-> Flat, load_id |-> "L3", origin |-> LACA, destination |-> DalTX,
       commodity_type |-> Stl, pickup_datetime |-> Jan15At10],
      [load_id |-> "L4", origin |-> RenoNV] }

\* Catalogs of at most MaxLoads loads
Catalogs == UNION { [1..n -> LoadPool] : n \in 0..MaxLoads }

\* Query strings of GET /api/loads
ArgsPool ==
    [origin : {<<>>, DalTX},
     origin_city : {<<>>, <<"D","A","L">>, <<"l","a">>},
     origin_state : {<<>>, <<"t","x">>},
     destination : {<<>>, LACA},
     destination_city : {<<>>, <<"d","a","l">>},
     destination_state : {<<>>, <<"C","a">>},
     equipment_type : {<<>>, <<"V","A","N">>, <<"f">>},
     commodity : {<<>>, <<"s","t","l">>},
     pickup_date : {<<>>, <<"0","1","-","1","5">>, <<"1","5","t">>}]

NoCriteria ==
    [origin_city |-> <<>>, origin_state |-> <<>>,
     destination_city |-> <<>>, destination_state |-> <<>>,
     equipment_type |-> <<>>, commodity |-> <<>>, pickup_date |-> <<>>,
     origin |-> <<>>, destination |-> <<>>]

LoadRequests ==
    { [endpoint |-> "loads", args |-> a, key |-> Some(API_KEY)] : a \in ArgsPool }
    \cup { [endpoint |-> "loads", args |-> NoCriteria, key |-> h] :
             h \in ApiKeyHeaders \ {Some(API_KEY)} }
    \cup { [endpoint |-> "load", key |-> h, load_id |-> id] :
             h \in ApiKeyHeaders, id \in {"L1", "L3", "L9"} }

\* Registry answers
FullCarrier ==
    JObj([legalName |-> JStr("ACME TRUCKING"), dotNumber |-> JStr("77"),
          phyCity |-> JStr("Reno"), phyState |-> JStr("NV")])
NameOnly == JObj([name |-> JStr("BOB LLC")])
EmptyLegalName ==
    JObj([name |-> JStr("BOB LLC"), legalName |-> JStr(""), dotNumber |-> JNull])
EmptyObject == JObj(<<>>)

CarrierObjects == {FullCarrier, NameOnly, EmptyLegalName, EmptyObject}

Contents ==
    CarrierObjects
    \cup { JObj([carrier |-> c]) : c \in CarrierObjects }
    \cup { JObj([carrier |-> c, legalName |-> JStr("OUTER INC")]) :
             c \in {FullCarrier, EmptyObject, JNull, JStr("text")} }
    \cup { JArr(<<>>), JArr(<<JStr("text")>>), JArr(<<JNull>>) }
    \cup { JArr(<<c>>) : c \in CarrierObjects }
    \cup { JArr(<<JObj([carrier |-> c])>>) : c \in CarrierObjects }
    \cup { JStr("text"), JNull }

Upstreams ==
    { [body |-> None, raised |-> TRUE], [body |-> None, raised |-> FALSE] }
    \cup { [body |-> Some(v), raised |-> FALSE] :
             v \in {JObj(<<>>), JArr(<<>>), JArr(<<FullCarrier>>), JNull, JStr("text"),
                    FullCarrier, JObj([carrier |-> FullCarrier])} }
    \cup { [body |-> Some(JObj([content |-> c])), raised |-> FALSE] : c \in Contents }

McNumbers == {None, Some(""), Some("MC123"), Some("MC456")}

\* Call payloads
Outcomes == {"agreed", "transferred"}
Sentiments == {"positive", "neutral", "negative", "mixed"}

\* outcome and sentiment, each given or left out
SentimentPayloads ==
    { [call_id |-> "c"] }
    \cup { [call_id |-> "c", outcome |-> o] : o \in Outcomes }
    \cup { [call_id |-> "c", sentiment |-> s] : s \in Sentiments }
    \cup { [call_id |-> "c", sentiment |-> s, outcome |-> o] :
             o \in Outcomes, s \in Sentiments }

RoundsValues == {0, 1, 3}
RateValues == {0, 1500}

\* negotiation_rounds and agreed_rate, each given or left out; a call with
\* a rate other than 0 is an agreed one
OutcomeFor(rate) == IF rate = 0 THEN "declined" ELSE "agreed"
SentimentFor(rate) == IF rate = 0 THEN "negative" ELSE "positive"

NegotiationPayloads ==
    { [sentiment |-> "negative", outcome |-> "declined"] }
    \cup { [sentiment |-> "negative", outcome |-> "declined", negotiation_rounds |-> n] :
             n \in RoundsValues }
    \cup { [sentiment |-> SentimentFor(a), outcome |-> OutcomeFor(a), agreed_rate |-> a] :
             a \in RateValues }
    \cup { [sentiment |-> SentimentFor(a), outcome |-> OutcomeFor(a),
            negotiation_rounds |-> n, agreed_rate |-> a] :
             n \in RoundsValues, a \in RateValues }

\* What a client may post: broken bodies, and payloads that try to set the
\* server's own fields
StoreBodies ==
    { Malformed, NotDict, Dict([call_id |-> "A"]),
      Dict([timestamp |-> 0, id |-> 0, call_id |-> "B"]) }

Limits == {None, Some(0), Some(1), Some(2), Some(-1)}

(***************************************************************************)
(* The server handling one request at a time.                              *)
(***************************************************************************)
Init ==
    /\ callsFile \in {MissingFile, OkFile(<<>>)}
    /\ loadsFile = OkFile(<<CHOOSE l \in LoadPool : l.load_id = "L1",
                            CHOOSE l \in LoadPool : l.load_id = "L2">>)
    /\ clock = 0
    /\ req = NoRequest
    /\ resp = NoResponse
    /\ pc = NoWorkers
    /\ local = NoLocals

Next ==
    \/ \E h \in ApiKeyHeaders, b \in StoreBodies, adv0 \in 0..1, adv1 \in 0..1,
          dumped \in BOOLEAN : save_call_results(h, b, adv0, adv1, dumped)
    \/ \E h \in {None, Some(API_KEY)}, limit \in {None, Some(1)} : get_all_calls(h, limit)
    \/ \E h \in {None, Some(API_KEY)} : get_analytics(h)
    \/ \E h \in {None, Some(API_KEY)} :
          search_loads(h, [NoCriteria EXCEPT !.origin_state = <<"t","x">>])
    \/ \E h \in {None, Some(API_KEY)} : get_load_by_id(h, "L1")
    \/ \E h \in {None, Some(API_KEY)},
          u \in {[body |-> None, raised |-> TRUE],
                 [body |-> Some(JObj([content |-> FullCarrier])), raised |-> FALSE]} :
          verify_carrier(h, Some("MC123"), u)
    \/ health_check

Spec == Init /\ [][Next]_vars

(***************************************************************************)
(* Carrier verification over the registry's answers.                       *)
(***************************************************************************)
InitVerify ==
    /\ callsFile = MissingFile
    /\ loadsFile = MissingFile
    /\ clock = 0
    /\ req = NoRequest
    /\ resp = NoResponse
    /\ pc = NoWorkers
    /\ local = NoLocals

NextVerify ==
    \E h \in ApiKeyHeaders, mc \in McNumbers, u \in Upstreams : verify_carrier(h, mc, u)

SpecVerify == InitVerify /\ [][NextVerify]_vars

(***************************************************************************)
(* Load search over catalogs and query strings: the request is drawn with  *)
(* the catalog and answered once.                                          *)
(***************************************************************************)
InitLoads ==
    /\ callsFile = MissingFile
    /\ loadsFile \in {MissingFile} \cup { OkFile(c) : c \in Catalogs }
    /\ clock = 0
    /\ req \in LoadRequests
    /\ resp = NoResponse
    /\ pc = NoWorkers
    /\ local = NoLocals

NextLoads ==
    \/ /\ resp = NoResponse
       /\ req.endpoint = "loads"
       /\ search_loads(req.key, req.args)
    \/ /\ resp = NoResponse
       /\ req.endpoint = "load"
       /\ get_load_by_id(req.key, req.load_id)

SpecLoads == InitLoads /\ [][NextLoads]_vars

(***************************************************************************)
(* Recording calls and reading the analytics.                              *)
(***************************************************************************)
InitCalls ==
    /\ callsFile \in {MissingFile, OkFile(<<>>)}
    /\ loadsFile = MissingFile
    /\ clock = 0
    /\ req = NoRequest
    /\ resp = NoResponse
    /\ pc = NoWorkers
    /\ local = NoLocals

NextSentiment ==
    \/ \E d \in SentimentPayloads : save_call_results(Some(API_KEY), Dict(d), 0, 0, TRUE)
    \/ \E h \in {None, Some(API_KEY)} : get_analytics(h)

SpecSentiment == InitCalls /\ [][NextSentiment]_vars

NextNegotiation ==
    \/ \E d \in NegotiationPayloads : save_call_results(Some(API_KEY), Dict(d), 0, 0, TRUE)
    \/ \E h \in {None, Some(API_KEY)} : get_analytics(h)

SpecNegotiation == InitCalls /\ [][NextNegotiation]_vars

(***************************************************************************)
(* Recording calls while the clock runs, and listing them.                 *)
(***************************************************************************)
NextListing ==
    \/ \E d \in {[call_id |-> "A"], [timestamp |-> 0, id |-> 0, call_id |-> "B"]},
          adv0 \in 0..1, adv1 \in 0..1 :
          save_call_results(Some(API_KEY), Dict(d), adv0, adv1, TRUE)
    \/ \E h \in {None, Some(API_KEY)}, limit \in Limits : get_all_calls(h, limit)

SpecListing == InitCalls /\ [][NextListing]_vars

(***************************************************************************)
(* Workers handling POST /api/call-results at the same time.               *)
(***************************************************************************)
NextConcurrent ==
    \E w \in Workers :
        \/ \E h \in {Some(API_KEY), Some("wrong-key")},
              b \in {Malformed, Dict([call_id |-> w])}, adv0 \in 0..1 :
              Begin(w, h, b, adv0, 0)
        \/ LoadCalls(w)
        \/ OpenForWrite(w)
        \/ \E intact \in BOOLEAN : Dump(w, intact)

SpecConcurrent == InitCalls /\ [][NextConcurrent]_vars

(***************************************************************************)
(* Properties: carrier verification (SpecVerify).                          *)
(***************************************************************************)
\* An authenticated verification request with a non-empty mc_number
VerifyAnswered ==
    /\ req.endpoint = "verify"
    /\ verify_api_key(req.key)
    /\ req.mc_number # None /\ req.mc_number # Some("")

\* The candidate as the specification normalizes it: content.carrier if
\* present else content; for a non-empty array the same on its first element.
ClaimedCandidate(upstream) ==
    IF upstream.raised \/ upstream.body = None THEN None
    ELSE LET data == upstream.body[1]
         IN  IF ~IsDict(data) \/ "content" \notin DOMAIN data.f THEN None
             ELSE LET content == data.f["content"]
                  IN  IF IsDict(content)
                      THEN IF "carrier" \in DOMAIN content.f
                           THEN Some(content.f["carrier"]) ELSE Some(content)
                      ELSE IF IsList(content) /\ content.a # <<>>
                      THEN LET first == content.a[1]
                           IN  IF IsDict(first) /\ "carrier" \in DOMAIN first.f
                               THEN Some(first.f["carrier"]) ELSE Some(first)
                      ELSE None

HasCarrierObject(upstream) ==
    ClaimedCandidate(upstream) # None /\ IsDict(ClaimedCandidate(upstream)[1])

\* The first of the fields that the candidate gives a non-empty value, else
\* the default
RECURSIVE ClaimedField(_, _, _)
ClaimedField(candidate, fields, default) ==
    IF fields = <<>> THEN JStr(default)
    ELSE IF fields[1] \in DOMAIN candidate.f /\ Truthy(candidate.f[fields[1]])
    THEN candidate.f[fields[1]]
    ELSE ClaimedField(candidate, Tail(fields), default)

\* C1: an authenticated verification with a non-empty mc_number answers 200,
\* and when the registry call raises or its body holds no carrier object the
\* answer is verified = false without carrier_data; verified = true is given
\* only for a carrier object taken from the registry's answer.
C1_NeverVerifiedWithoutCarrier ==
    VerifyAnswered =>
        /\ resp.status = 200
        /\ ~HasCarrierObject(req.upstream) =>
              /\ resp.verified = FALSE
              /\ "carrier_data" \notin DOMAIN resp \/ resp.carrier_data = None
        /\ resp.verified = TRUE => HasCarrierObject(req.upstream)

\* C8: whenever the normalized candidate is an object, one without fields
\* included, the answer is verified = true and carrier_data is built from
\* that candidate, the request's mc_number and the defaults "Unknown"/"N/A".
C8_CarrierDataFromCandidate ==
    (VerifyAnswered /\ HasCarrierObject(req.upstream)) =>
        LET candidate == ClaimedCandidate(req.upstream)[1]
        IN  /\ resp.status = 200
            /\ resp.verified = TRUE
            /\ resp.carrier_data =
                 Some([mc_number |-> req.mc_number[1],
                       legal_name |-> ClaimedField(candidate, <<"legalName", "name">>,
                                                   "Unknown"),
                       dot_number |-> ClaimedField(candidate, <<"dotNumber">>, "N/A"),
                       city |-> ClaimedField(candidate, <<"phyCity">>, "N/A"),
                       state |-> ClaimedField(candidate, <<"phyState">>, "N/A")])

(***************************************************************************)
(* Properties: load search (SpecLoads).                                    *)
(***************************************************************************)
SearchAnswered == resp.endpoint = "loads" /\ resp.status = 200

\* sub is empty (criterion not given) or a substring of field, ignoring case
MatchesIgnoringCase(sub, load, field) ==
    sub = <<>> \/ (field \in DOMAIN load /\ Contains(Lower(sub), Lower(load[field])))

\* sub is empty (criterion not given) or a substring of field, case kept
MatchesExactly(sub, load, field) ==
    sub = <<>> \/ (field \in DOMAIN load /\ Contains(sub, load[field]))

\* The six criteria that are compared ignoring case
MatchesTextCriteria(load, args) ==
    /\ MatchesIgnoringCase(args.origin_city, load, "origin")
    /\ MatchesIgnoringCase(args.origin_state, load, "origin")
    /\ MatchesIgnoringCase(args.destination_city, load, "destination")
    /\ MatchesIgnoringCase(args.destination_state, load, "destination")
    /\ MatchesIgnoringCase(args.equipment_type, load, "equipment_type")
    /\ MatchesIgnoringCase(args.commodity, load, "commodity_type")

GivenCriteria(args) ==
    { f \in {"origin_city", "origin_state", "destination_city", "destination_state",
             "equipment_type", "commodity", "pickup_date"} : args[f] # <<>> }

\* sub is a subsequence of s: sub can be read off s at increasing positions
RECURSIVE IsSubsequence(_, _)
IsSubsequence(sub, s) ==
    IF sub = <<>> THEN TRUE
    ELSE IF s = <<>> THEN FALSE
    ELSE IF sub[1] = s[1] THEN IsSubsequence(Tail(sub), Tail(s))
    ELSE IsSubsequence(sub, Tail(s))

RECURSIVE Strip(_)
Strip(s) ==
    IF s = <<>> THEN s
    ELSE IF s[1] = " " THEN Strip(Tail(s))
    ELSE IF s[Len(s)] = " " THEN Strip(SubSeq(s, 1, Len(s) - 1))
    ELSE s

\* "City, ST" split on its first comma
CityOf(combined) ==
    IF \E i \in 1..Len(combined) : combined[i] = ","
    THEN Strip(SubSeq(combined, 1,
                      (CHOOSE i \in 1..Len(combined) :
                          /\ combined[i] = ","
                          /\ \A j \in 1..(i - 1) : combined[j] # ",") - 1))
    ELSE Strip(combined)

StateOf(combined) ==
    IF \E i \in 1..Len(combined) : combined[i] = ","
    THEN Strip(SubSeq(combined,
                      (CHOOSE i \in 1..Len(combined) :
                          /\ combined[i] = ","
                          /\ \A j \in 1..(i - 1) : combined[j] # ",") + 1,
                      Len(combined)))
    ELSE <<>>

\* C7: a combined origin (destination) "City, ST" is split on its first
\* comma and both parts filter the load's origin (destination): every load
\* returned contains the city and the state, ignoring case.
C7_CombinedCriteriaFilter ==
    SearchAnswered =>
        \A i \in 1..Len(resp.loads) :
            /\ req.args.origin # <<>> =>
                 /\ MatchesIgnoringCase(CityOf(req.args.origin), resp.loads[i], "origin")
                 /\ MatchesIgnoringCase(StateOf(req.args.origin), resp.loads[i], "origin")
            /\ req.args.destination # <<>> =>
                 /\ MatchesIgnoringCase(CityOf(req.args.destination), resp.loads[i],
                                        "destination")
                 /\ MatchesIgnoringCase(StateOf(req.args.destination), resp.loads[i],
                                        "destination")

(***************************************************************************)
(* Properties: the call store under one request at a time (Spec).          *)
(***************************************************************************)
\* The call store: what a handler reads from calls_database.json
CallStore == load_json_file(callsFile)

\* s is t with one more record at its end
ExtendsByOne(s, t) == Len(s) = Len(t) + 1 /\ SubSeq(s, 1, Len(t)) = t

\* C2: every request leaves the call store unchanged or appends exactly one
\* record at its end; it is extended only by an authenticated
\* POST /api/call-results answered 201, and every GET, every 401 and every
\* POST answered 500 leaves it unchanged.
C2_AppendOnly ==
    [][ LET old == load_json_file(callsFile)
            new == load_json_file(callsFile')
        IN  /\ new = old \/ ExtendsByOne(new, old)
            /\ new # old =>
                 /\ req'.endpoint = "call-results"
                 /\ verify_api_key(req'.key)
                 /\ resp'.status = 201
            /\ (req'.endpoint # "call-results" \/ resp'.status \in {401, 500}) =>
                 new = old ]_vars

\* C10: id and timestamp of a record come from one clock reading: the second
\* in the id is the second of the timestamp; so ids do not decrease in
\* recording order and timestamps in different seconds give different ids.
C10_IdFromTimestamp ==
    /\ \A i \in 1..Len(CallStore) :
          CallStore[i].id = Second(CallStore[i].timestamp)
    /\ \A i \in 1..Len(CallStore), j \in 1..Len(CallStore) :
          /\ i < j => CallStore[i].id <= CallStore[j].id
          /\ Second(CallStore[i].timestamp) # Second(CallStore[j].timestamp) =>
                CallStore[i].id # CallStore[j].id

(***************************************************************************)
(* Properties: listing the calls (SpecListing).                            *)
(***************************************************************************)
ListingAnswered == resp.endpoint = "calls" /\ resp.status = 200

\* The positions of the store, newest first, equal timestamps in recording
\* order: the one order p of 1..n with that property
NewestFirstOrders(store) ==
    { p \in Permutations(1..Len(store)) :
        \A i \in 1..Len(store), j \in 1..Len(store) :
            i < j => \/ store[p[i]].timestamp > store[p[j]].timestamp
                     \/ /\ store[p[i]].timestamp = store[p[j]].timestamp
                        /\ p[i] < p[j] }

\* The number of calls a listing is to return: all without a limit (or with
\* limit 0), min(k, n) with limit k >= 1; nothing is said of a negative limit
ExpectedCount(limit, n) ==
    IF limit = None \/ limit[1] = 0 THEN Some(n)
    ELSE IF limit[1] >= 1 THEN Some(Min(limit[1], n))
    ELSE None

DistinctTimestamps(store) ==
    \A i \in 1..Len(store), j \in 1..Len(store) :
        i # j => store[i].timestamp # store[j].timestamp

C9_ListingState ==
    ListingAnswered =>
        LET store == CallStore
            out == resp.calls
            m == ExpectedCount(req.limit, Len(store))
        IN  /\ resp.count = Len(out)
            /\ \A i \in 1..Len(out), j \in 1..Len(out) :
                  i < j => out[i].timestamp >= out[j].timestamp
            /\ m # None =>
                  /\ Len(out) = m[1]
                  /\ \E p \in NewestFirstOrders(store) :
                        \A i \in 1..m[1] : out[i] = store[p[i]]
                  /\ DistinctTimestamps(store) =>
                        \A i \in 1..m[1] : out[i] = store[Len(store) + 1 - i]

\* C9 (as amended): a listing is in non-increasing timestamp order and count
\* is its length; without a limit all N calls are returned, with limit k >= 1
\* the first min(k, N) calls of the newest-first order in which calls of
\* equal timestamp keep their recording order; these are the most recently
\* recorded calls when the stored timestamps are pairwise distinct.  Listing
\* leaves the call file unchanged.
C9_ListingNewestFirst ==
    /\ []C9_ListingState
    /\ [][req'.endpoint = "calls" => callsFile' = callsFile]_vars

\* C9 (witness): a listing with limit 1 of two calls recorded at the same
\* tick, which returns the one recorded first.
C9_ListingWithTie ==
    /\ ListingAnswered
    /\ req.limit = Some(1)
    /\ Len(CallStore) = 2
    /\ CallStore[1].timestamp = CallStore[2].timestamp
    /\ CallStore[1] # CallStore[2]
    /\ resp.calls = <<CallStore[1]>>

\* C9 (as claimed): with limit k >= 1 exactly the min(k, N) most recently
\* recorded calls are returned, newest first, under a clock that never goes
\* back.
C9_LimitKeepsMostRecent ==
    (ListingAnswered /\ req.limit # None /\ req.limit[1] >= 1) =>
        /\ Len(resp.calls) = Min(req.limit[1], Len(CallStore))
        /\ \A i \in 1..Len(resp.calls) :
              resp.calls[i] = CallStore[Len(CallStore) + 1 - i]

(***************************************************************************)
(* Properties: analytics (SpecSentiment, SpecNegotiation).                 *)
(***************************************************************************)
AnalyticsAnswered == resp.endpoint = "analytics" /\ resp.status = 200

\* The number of stored calls that satisfy P
NumberOf(P(_)) == Cardinality({ i \in 1..Len(CallStore) : P(CallStore[i]) })

Has(c, field, value) == field \in DOMAIN c /\ c[field] = value

\* a / b as a fraction equals num / den
SameFraction(fraction, num, den) == fraction.num * den = num * fraction.den

C5_Counts ==
    LET n == Len(CallStore)
        a == resp.analytics
        agreed == NumberOf(LAMBDA c : Has(c, "outcome", "agreed"))
        positive == NumberOf(LAMBDA c : Has(c, "sentiment", "positive"))
    IN  /\ "total_calls" \notin DOMAIN resp
        /\ a.total_calls = n
        /\ a.successful_calls = agreed
        /\ a.transferred_calls = NumberOf(LAMBDA c : Has(c, "outcome", "transferred"))
        /\ SameFraction(a.conversion_rate, agreed * 100, n)
        /\ a.sentiment.positive = positive
        /\ a.sentiment.neutral =
             NumberOf(LAMBDA c : "sentiment" \notin DOMAIN c \/ c.sentiment = "neutral")
        /\ a.sentiment.negative = NumberOf(LAMBDA c : Has(c, "sentiment", "negative"))
        /\ SameFraction(a.sentiment.positive_rate, positive * 100, n)

\* C5 (as amended): for N = 0 the answer holds total_calls = 0 and no
\* analytics block; for N > 0 the counts and rates are as claimed, a call
\* without a sentiment counts as neutral, and the three sentiment counts sum
\* to the number of calls whose sentiment is absent or one of positive,
\* neutral, negative: to N exactly when no call has another sentiment.
C5_AnalyticsCounts ==
    AnalyticsAnswered =>
        IF CallStore = <<>>
        THEN "analytics" \notin DOMAIN resp /\ resp.total_calls = 0
        ELSE /\ "analytics" \in DOMAIN resp
             /\ C5_Counts
             /\ resp.analytics.sentiment.positive + resp.analytics.sentiment.neutral
                   + resp.analytics.sentiment.negative
                = Len(CallStore)
                   - NumberOf(LAMBDA c : /\ "sentiment" \in DOMAIN c
                                         /\ c.sentiment \notin {"positive", "neutral",
                                                                "negative"})

\* C5 (witness): analytics over a store that holds a call without sentiment
\* and an agreed call with a sentiment.
C5_AnalyticsOverMixedStore ==
    /\ AnalyticsAnswered
    /\ Len(CallStore) >= 2
    /\ \E i \in 1..Len(CallStore) : "sentiment" \notin DOMAIN CallStore[i]
    /\ \E i \in 1..Len(CallStore) :
          Has(CallStore[i], "outcome", "agreed") /\ "sentiment" \in DOMAIN CallStore[i]

\* C5 (as claimed): after any recorded calls the three sentiment counts sum
\* to N.
C5_SentimentCountsSumToN ==
    (AnalyticsAnswered /\ CallStore # <<>>) =>
        resp.analytics.sentiment.positive + resp.analytics.sentiment.neutral
           + resp.analytics.sentiment.negative = Len(CallStore)

\* The values of field over the calls where it is present and non-zero
Qualifying(field) ==
    { i \in 1..Len(CallStore) : field \in DOMAIN CallStore[i] /\ CallStore[i][field] # 0 }

RECURSIVE SumAt(_, _)
SumAt(positions, field) ==
    IF positions = {} THEN 0
    ELSE LET i == CHOOSE i \in positions : TRUE
         IN  CallStore[i][field] + SumAt(positions \ {i}, field)

\* hundredths is the mean total / count rounded to two decimals: nearest,
\* and the even one of two equally near
IsRoundedMean(hundredths, total, count) ==
    LET distance == hundredths * count - 100 * total
    IN  /\ 2 * distance <= count
        /\ 2 * distance >= 0 - count
        /\ (2 * distance = count \/ 2 * distance = 0 - count) => hundredths % 2 = 0

IsAverageOf(hundredths, field) ==
    IF Qualifying(field) = {} THEN hundredths = 0
    ELSE IsRoundedMean(hundredths, SumAt(Qualifying(field), field),
                       Cardinality(Qualifying(field)))

\* The store of the example: an agreed call with 3 rounds at 1500, then a
\* declined call with 0 rounds
ExampleStore ==
    /\ Len(CallStore) = 2
    /\ Has(CallStore[1], "outcome", "agreed") /\ Has(CallStore[1], "sentiment", "positive")
    /\ Has(CallStore[1], "negotiation_rounds", 3) /\ Has(CallStore[1], "agreed_rate", 1500)
    /\ Has(CallStore[2], "outcome", "declined") /\ Has(CallStore[2], "sentiment", "negative")
    /\ Has(CallStore[2], "negotiation_rounds", 0) /\ "agreed_rate" \notin DOMAIN CallStore[2]

\* C6 (as amended): avg_rounds is the mean of negotiation_rounds over the
\* calls where it is present and non-zero, rounded to two decimals, and
\* avg_agreed_rate likewise for agreed_rate; other calls count in neither sum
\* nor denominator, and with no such call the average is 0.  The example
\* store gives total_calls 2, successful_calls 1, conversion_rate 50,
\* avg_rounds 3 and avg_agreed_rate 1500.
C6_AveragesOverNonZero ==
    (AnalyticsAnswered /\ CallStore # <<>>) =>
        LET a == resp.analytics
        IN  /\ IsAverageOf(a.negotiation.avg_rounds, "negotiation_rounds")
            /\ IsAverageOf(a.negotiation.avg_agreed_rate, "agreed_rate")
            /\ ExampleStore =>
                 /\ a.total_calls = 2
                 /\ a.successful_calls = 1
                 /\ SameFraction(a.conversion_rate, 50, 1)
                 /\ a.negotiation.avg_rounds = 300
                 /\ a.negotiation.avg_agreed_rate = 150000

\* C6 (witness): analytics over the example store.
C6_AnalyticsOverExample == AnalyticsAnswered /\ ExampleStore

\* C6 (as claimed): avg_rounds and avg_agreed_rate are the means themselves.
C6_AveragesAreMeans ==
    (AnalyticsAnswered /\ CallStore # <<>>) =>
        \A field \in {"negotiation_rounds", "agreed_rate"} :
            LET hundredths == IF field = "negotiation_rounds"
                              THEN resp.analytics.negotiation.avg_rounds
                              ELSE resp.analytics.negotiation.avg_agreed_rate
            IN  IF Qualifying(field) = {} THEN hundredths = 0
                ELSE hundredths * Cardinality(Qualifying(field))
                        = 100 * SumAt(Qualifying(field), field)

(***************************************************************************)
(* Properties: concurrent recording (SpecConcurrent).                      *)
(***************************************************************************)
Acknowledged(w) == pc[w] = "done" /\ local[w].status = 201

\* C3: the last writer wins.  Whenever the call file holds records, they are
\* what one acknowledged worker loaded plus that worker's own record, whatever
\* the other workers saved in between.
C3_LastWriterWins ==
    (callsFile.status = "ok" /\ callsFile.data # <<>>) =>
        \E w \in Workers :
            /\ Acknowledged(w)
            /\ callsFile.data = Append(local[w].loaded, local[w].data)

\* C3 (witness): two workers loaded the empty store before either saved, both
\* were answered 201, and the store holds the record of the one that saved
\* last only.
C3_LostUpdate ==
    \E v \in Workers, w \in Workers :
        /\ v # w
        /\ Acknowledged(v) /\ Acknowledged(w)
        /\ local[v].loaded = <<>> /\ local[w].loaded = <<>>
        /\ callsFile = OkFile(<<local[w].data>>)
        /\ local[v].data # local[w].data

====
